---- MODULE Spec2Model ----
(***************************************************************************)
(* Model of pylabrobot's VenusBackend                                      *)
(* (pylabrobot/liquid_handling/backends/hamilton/venus_backend.py).        *)
(*                                                                         *)
(* Python strings are sequences of one-character strings, so that split,   *)
(* int(), str(), chr(), lower() and the `in` substring test are computed   *)
(* as Python computes them.  A call that raises is a result record with    *)
(* ok = FALSE and the name of the Python exception.                        *)
(***************************************************************************)
EXTENDS Integers, Sequences, FiniteSets, TLC

VARIABLES
  hamilton_interface,  \* self.hamilton_interface: 0 is None, n > 0 the n-th HamiltonInterface
  transports,          \* per HamiltonInterface created: how often start() and stop() ran
  log,                 \* what the transport saw: send_command / wait_on_response events
  calls,               \* number of backend methods called so far
  last                 \* the last call: its arguments and how it ended

vars == <<hamilton_interface, transports, log, calls, last>>

(***************************************************************************)
(* Bounds of the model.                                                    *)
(***************************************************************************)
MaxOps == 2        \* operations per single-channel batch
MaxCalls == 3      \* backend calls per behaviour of Spec
MaxPrefix == 1     \* setup and stop calls before the operation of SpecDispatch
MaxCol == 2        \* largest well / tip spot column of the encoder's inputs
MaxRow == 3        \* largest well / tip spot row of the encoder's inputs
MaxChannels == 4   \* largest channel count of the mask builder's inputs
MaxUse == 3        \* longest use_channels list of the mask builder's inputs

(***************************************************************************)
(* Python str, as sequences of characters.                                 *)
(***************************************************************************)
Digits == <<"0", "1", "2", "3", "4", "5", "6", "7", "8", "9">>

Upper == <<"A", "B", "C", "D", "E", "F", "G", "H", "I", "J", "K", "L", "M",
           "N", "O", "P", "Q", "R", "S", "T", "U", "V", "W", "X", "Y", "Z">>

Lower == <<"a", "b", "c", "d", "e", "f", "g", "h", "i", "j", "k", "l", "m",
           "n", "o", "p", "q", "r", "s", "t", "u", "v", "w", "x", "y", "z">>

\* The ASCII characters from code 32 to code 95, in code order.
Ascii == <<" ", "!", "\"", "#", "$", "%", "&", "'", "(", ")", "*", "+", ",", "-", ".", "/">>
         \o Digits \o <<":", ";", "<", "=", ">", "?", "@">>
         \o Upper \o <<"[", "\\", "]", "^", "_">>

IndexOf(c, table) == CHOOSE i \in 1..Len(table) : table[i] = c

\* ord(c)
Ord(c) == 31 + IndexOf(c, Ascii)

\* chr(n), for 32 <= n <= 95
Chr(n) == Ascii[n - 31]

\* c.lower() of one character
LowerChar(c) ==
  IF \E i \in 1..Len(Upper) : Upper[i] = c THEN Lower[IndexOf(c, Upper)] ELSE c

\* s.lower()
ToLower(s) == [i \in 1..Len(s) |-> LowerChar(s[i])]

\* sub in s
Contains(s, sub) ==
  \E i \in 0..(Len(s) - Len(sub)) : SubSeq(s, i + 1, i + Len(sub)) = sub

\* s.split(sep) for a one-character sep: the list of the pieces
RECURSIVE Split(_, _)
Split(s, sep) ==
  IF \A i \in 1..Len(s) : s[i] # sep
    THEN <<s>>
    ELSE LET i == CHOOSE j \in 1..Len(s) :
                    s[j] = sep /\ \A k \in 1..(j - 1) : s[k] # sep
         IN <<SubSeq(s, 1, i - 1)>> \o Split(SubSeq(s, i + 1, Len(s)), sep)

\* sep.join(parts)
RECURSIVE Join(_, _)
Join(parts, sep) ==
  IF parts = <<>> THEN <<>>
  ELSE IF Len(parts) = 1 THEN parts[1]
  ELSE LET half == Len(parts) \div 2
       IN Join(SubSeq(parts, 1, half), sep) \o sep
            \o Join(SubSeq(parts, half + 1, Len(parts)), sep)

IsDigit(c) == \E i \in 1..Len(Digits) : Digits[i] = c

RECURSIVE DigitsValue(_)
DigitsValue(s) ==
  IF s = <<>> THEN 0
  ELSE 10 * DigitsValue(SubSeq(s, 1, Len(s) - 1)) + (IndexOf(s[Len(s)], Digits) - 1)

\* int(s): an optional sign and at least one decimal digit, else ValueError
IntParses(s) ==
  LET body == IF s # <<>> /\ s[1] \in {"-", "+"} THEN Tail(s) ELSE s
  IN body # <<>> /\ \A i \in 1..Len(body) : IsDigit(body[i])

IntValue(s) ==
  IF s[1] = "-" THEN 0 - DigitsValue(Tail(s))
  ELSE IF s[1] = "+" THEN DigitsValue(Tail(s))
  ELSE DigitsValue(s)

RECURSIVE NatStr(_)
NatStr(n) ==
  IF n < 10 THEN <<Digits[n + 1]>> ELSE NatStr(n \div 10) \o <<Digits[(n % 10) + 1]>>

\* str(n)
Str(n) == IF n < 0 THEN <<"-">> \o NatStr(0 - n) ELSE NatStr(n)

(***************************************************************************)
(* The string literals of the source and of the inputs.                    *)
(***************************************************************************)
\* "deck"
s_deck ==
  <<"d", "e", "c", "k">>

\* "plateA"
s_plateA ==
  <<"p", "l", "a", "t", "e", "A">>

\* "tips"
s_tips ==
  <<"t", "i", "p", "s">>

\* "trash"
s_trash ==
  <<"t", "r", "a", "s", "h">>

\* "trash_0_0"
s_trash_0_0 ==
  <<"t", "r", "a", "s", "h", "_", "0", "_", "0">>

\* "trough"
s_trough ==
  <<"t", "r", "o", "u", "g", "h">>

\* "rack1"
s_rack1 ==
  <<"r", "a", "c", "k", "1">>

\* "carrier-7"
s_carrier_7 ==
  <<"c", "a", "r", "r", "i", "e", "r", "-", "7">>

\* "rack1-3"
s_rack1_3 ==
  <<"r", "a", "c", "k", "1", "-", "3">>

\* "rack1-3_0_0"
s_rack1_3_0_0 ==
  <<"r", "a", "c", "k", "1", "-", "3", "_", "0", "_", "0">>

\* ", A1"
s_A1 ==
  <<",", " ", "A", "1">>

\* ", "
s_comma_space ==
  <<",", " ">>

\* ", 1"
s_1 ==
  <<",", " ", "1">>

\* "No tip"
s_No_tip ==
  <<"N", "o", " ", "t", "i", "p">>

\* "Failed to pick up tip, none present."
s_Failed_to_pick_up_tip_none_present ==
  <<"F", "a", "i", "l", "e", "d", " ", "t", "o", " ", "p", "i", "c", "k", " ", "u",
    "p", " ", "t", "i", "p", ",", " ", "n", "o", "n", "e", " ", "p", "r", "e", "s",
    "e", "n", "t", ".">>

\* "Tip already fitted"
s_Tip_already_fitted ==
  <<"T", "i", "p", " ", "a", "l", "r", "e", "a", "d", "y", " ", "f", "i", "t", "t",
    "e", "d">>

\* "Attempted to drop tip when another was already fitted."
s_Attempted_to_drop_tip_when_another_was_already_fitted ==
  <<"A", "t", "t", "e", "m", "p", "t", "e", "d", " ", "t", "o", " ", "d", "r", "o",
    "p", " ", "t", "i", "p", " ", "w", "h", "e", "n", " ", "a", "n", "o", "t", "h",
    "e", "r", " ", "w", "a", "s", " ", "a", "l", "r", "e", "a", "d", "y", " ", "f",
    "i", "t", "t", "e", "d", ".">>

\* "not enough liquid"
s_not_enough_liquid ==
  <<"n", "o", "t", " ", "e", "n", "o", "u", "g", "h", " ", "l", "i", "q", "u", "i",
    "d">>

\* "pipe closed"
s_pipe_closed ==
  <<"p", "i", "p", "e", " ", "c", "l", "o", "s", "e", "d">>

\* "No tip present"
s_No_tip_present ==
  <<"N", "o", " ", "t", "i", "p", " ", "p", "r", "e", "s", "e", "n", "t">>

\* "no tip present"
s_no_tip_present ==
  <<"n", "o", " ", "t", "i", "p", " ", "p", "r", "e", "s", "e", "n", "t">>

\* "Not Enough Liquid in Well"
s_Not_Enough_Liquid_in_Well ==
  <<"N", "o", "t", " ", "E", "n", "o", "u", "g", "h", " ", "L", "i", "q", "u", "i",
    "d", " ", "i", "n", " ", "W", "e", "l", "l">>

\* "not enough liquid in reservoir"
s_not_enough_liquid_in_reservoir ==
  <<"n", "o", "t", " ", "e", "n", "o", "u", "g", "h", " ", "l", "i", "q", "u", "i",
    "d", " ", "i", "n", " ", "r", "e", "s", "e", "r", "v", "o", "i", "r">>

\* "Hardware error"
s_Hardware_error ==
  <<"H", "a", "r", "d", "w", "a", "r", "e", " ", "e", "r", "r", "o", "r">>

\* "Position not reachable"
s_Position_not_reachable ==
  <<"P", "o", "s", "i", "t", "i", "o", "n", " ", "n", "o", "t", " ", "r", "e", "a",
    "c", "h", "a", "b", "l", "e">>

\* "plate_1"
s_plate_1 ==
  <<"p", "l", "a", "t", "e", "_", "1">>

\* "rack1-5_0_0"
s_rack1_5_0_0 ==
  <<"r", "a", "c", "k", "1", "-", "5", "_", "0", "_", "0">>

(***************************************************************************)
(* Results of calls that may raise.                                        *)
(***************************************************************************)
Ok(v) == [ok |-> TRUE, val |-> v, err |-> "None"]
Raise(e) == [ok |-> FALSE, val |-> <<>>, err |-> e]

(***************************************************************************)
(* Resources (pylabrobot.resources), as far as the backend reads them:     *)
(* the class, the name, the parent, a tip rack's num_items_y and a plate's *)
(* or tip rack's children.  NoResource is Python's None.                   *)
(***************************************************************************)
NoResource == [kind |-> "None"]

Resource(kind, name, parent) ==
  [kind |-> kind, name |-> name, parent |-> parent, num_items_y |-> 0, children |-> <<>>]

isinstance(resource, kinds) == resource.kind \in kinds

deck == Resource("Deck", s_deck, NoResource)

plateA == Resource("Plate", s_plateA, deck)

tips == [Resource("TipRack", s_tips, deck) EXCEPT !.num_items_y = 8]

trash == Resource("Trash", s_trash, deck)

trash_0_0 == Resource("Trash", s_trash_0_0, deck)

trough == Resource("Container", s_trough, deck)

rack1 == Resource("TubeRack", s_rack1, deck)

carrier7 == Resource("ResourceHolder", s_carrier_7, rack1)

\* wells and tip spots are named <parent>_<col>_<row>
ItemName(parent, col, row) == parent.name \o <<"_">> \o Str(col) \o <<"_">> \o Str(row)

WellAt(plate, col, row) == Resource("Well", ItemName(plate, col, row), plate)

TipSpotAt(rack, col, row) == Resource("TipSpot", ItemName(rack, col, row), rack)

\* tubes are named <rack>-<id>
tube_3 == Resource("Tube", s_rack1_3, carrier7)

tube_3_0_0 == Resource("Tube", s_rack1_3_0_0, carrier7)

WithChildren(resource, children) == [resource EXCEPT !.children = children]

plateA_full == WithChildren(plateA, <<WellAt(plateA, 0, 0), WellAt(plateA, 0, 1)>>)

tips_full == WithChildren(tips, <<TipSpotAt(tips, 0, 0), TipSpotAt(tips, 0, 1)>>)

(***************************************************************************)
(* VenusBackend: the encoders.                                             *)
(***************************************************************************)
DEFAULT_LIQUID_CLASS == "StandardVolumeFilter_Water_DispenseSurface_Part"

_num_channels == 16

num_channels == _num_channels

\* WellPosId with the bug of taking the letter from the column and the number from
\* the row
WellPosId_swapped(pos_id_col, pos_id_row) ==
  <<Chr(Ord("A") + pos_id_col)>> \o Str(pos_id_row + 1)

\* pos_id of a Well: chr(ord('A') + pos_id_row) + str(pos_id_col + 1)
WellPosId(pos_id_col, pos_id_row) ==
  <<Chr(Ord("A") + pos_id_row)>> \o Str(pos_id_col + 1)

_resource_to_pos_str(resource) ==
  IF isinstance(resource, {"Plate", "TipRack"})
    THEN Ok(resource.name \o s_A1)
  ELSE IF resource.parent = NoResource
    THEN Raise("AttributeError")
  ELSE
    LET labware_name == resource.parent.name
        parts == Split(resource.name, "_")
    IN IF Len(parts) < 2 THEN Raise("IndexError")
       ELSE IF ~IntParses(parts[Len(parts) - 1]) \/ ~IntParses(parts[Len(parts)])
         THEN Raise("ValueError")
       ELSE
         LET pos_id_col == IntValue(parts[Len(parts) - 1])
             pos_id_row == IntValue(parts[Len(parts)])
         IN IF isinstance(resource, {"TipSpot"})
              THEN Ok(labware_name \o s_comma_space
                      \o Str(pos_id_col * resource.parent.num_items_y + pos_id_row + 1))
            ELSE IF isinstance(resource, {"Well"})
              THEN Ok(labware_name \o s_comma_space \o WellPosId(pos_id_col, pos_id_row))
            ELSE IF isinstance(resource, {"Tube"})
              THEN LET pieces == Split(labware_name, "-")
                       pos_id == pieces[Len(pieces)]
                   IN IF resource.parent.parent = NoResource
                        THEN Raise("AttributeError")
                        ELSE Ok(resource.parent.parent.name \o s_comma_space \o pos_id)
            ELSE Raise("UnboundLocalError")

\* for i in use_channels: channels_mask[i] = "1", with Python's list indexing
RECURSIVE SetChannels(_, _)
SetChannels(channels_mask, use_channels) ==
  IF use_channels = <<>> THEN Ok(channels_mask)
  ELSE LET i == Head(use_channels)
           n == Len(channels_mask)
       IN IF i >= n \/ i < 0 - n THEN Raise("IndexError")
          ELSE SetChannels(
                 [channels_mask EXCEPT ![(IF i < 0 THEN n + i ELSE i) + 1] = "1"],
                 Tail(use_channels))

\* ChannelVariable with the bug of taking the channel indices as 1-based
ChannelVariable_one_based(n, use_channels) ==
  SetChannels([i \in 1..n |-> "0"],
              [k \in 1..Len(use_channels) |-> use_channels[k] - 1])

\* channels_mask = ["0"] * n, the loop above, "".join(channels_mask)
ChannelVariable(n, use_channels) == SetChannels([i \in 1..n |-> "0"], use_channels)

\* [f(x) for x in xs], stopping at the first f(x) that raises
RECURSIVE EncodeAll(_)
EncodeAll(resources) ==
  IF resources = <<>> THEN Ok(<<>>)
  ELSE LET first == _resource_to_pos_str(Head(resources))
       IN IF ~first.ok THEN first
          ELSE LET rest == EncodeAll(Tail(resources))
               IN IF ~rest.ok THEN rest ELSE Ok(<<first.val>> \o rest.val)

\* the pair (labware_positions_str, channel_variable)
_ops_to_channel_info(ops, use_channels) ==
  LET channel_variable == ChannelVariable(num_channels, use_channels)
      positions == EncodeAll([i \in 1..Len(ops) |-> ops[i].resource])
  IN IF ~channel_variable.ok THEN channel_variable
     ELSE IF ~positions.ok THEN positions
     ELSE Ok(<<Join(positions.val, <<";">>), channel_variable.val>>)

\* [x] * n
Repeat(x, n) == [i \in 1..n |-> x]

_resource_to_96_pos_str(resource) ==
  IF isinstance(resource, {"Container"})
    THEN Ok(Join(Repeat(resource.name \o s_1, 96), <<";">>))
    ELSE LET positions == EncodeAll(resource.children)
         IN IF ~positions.ok THEN positions ELSE Ok(Join(positions.val, <<";">>))

(***************************************************************************)
(* Exceptions: the class, str(e) and the __cause__ chained by `from`.      *)
(***************************************************************************)
NoError == [type |-> "None"]

Exception(type, text, cause) == [type |-> type, text |-> text, cause |-> cause]

\* an exception Python itself raises inside a handler
Builtin(type) == Exception(type, <<>>, NoError)

\* except HamiltonError: PositionError derives from HamiltonError
IsHamiltonError(e) == e.type \in {"HamiltonError", "PositionError"}

(***************************************************************************)
(* The transport, HamiltonInterface.  A response is a success or a fault   *)
(* carrying the error wait_on_response raises for it.                      *)
(***************************************************************************)
NoResponse == [fault |-> FALSE, error |-> NoError, awaited |-> FALSE]

OkResponse == [fault |-> FALSE, error |-> NoError, awaited |-> TRUE]

Fault(type, text, cause) ==
  [fault |-> TRUE, error |-> Exception(type, text, cause), awaited |-> TRUE]

\* the exception wait_on_response raises, NoError when it returns
wait_on_response(response, raise_first_exception) ==
  IF response.fault /\ raise_first_exception THEN response.error ELSE NoError

\* Exchange with the bug of returning without waiting for the response
Exchange_without_wait(cmd) ==
  << [ev |-> "send", call |-> calls + 1, cmd |-> cmd] >>

\* send_command and wait_on_response of one command, as the transport sees them
Exchange(cmd) ==
  << [ev |-> "send", call |-> calls + 1, cmd |-> cmd],
     [ev |-> "wait", call |-> calls + 1, cmd |-> cmd] >>

(***************************************************************************)
(* The record of a call.                                                   *)
(***************************************************************************)
Call(op, ops, use_channels, kwargs) ==
  [op |-> op, ops |-> ops, use_channels |-> use_channels, kwargs |-> kwargs,
   num_channels |-> num_channels, raise_first_exception |-> TRUE,
   sent |-> <<>>, response |-> NoResponse, error |-> NoError, returned |-> Ok(<<>>)]

\* the call raised `error` before any command was sent
Fails(call, error) ==
  /\ last' = [call EXCEPT !.error = error, !.returned = Raise(error.type)]
  /\ calls' = calls + 1
  /\ UNCHANGED <<hamilton_interface, transports, log>>

\* the call sent cmd with params and waited for the response: `outcomes` pairs each
\* response the transport may give with the exception the call then ends with
Dispatched(call, cmd, params, outcomes) ==
  \E o \in outcomes :
    /\ last' = [call EXCEPT !.sent = <<[cmd |-> cmd, params |-> params]>>,
                            !.response = o.response,
                            !.error = o.error,
                            !.returned = IF o.error = NoError THEN Ok(<<>>)
                                         ELSE Raise(o.error.type)]
    /\ log' = log \o Exchange(cmd)
    /\ calls' = calls + 1
    /\ UNCHANGED <<hamilton_interface, transports>>

\* wait_on_response(cmd, raise_first_exception=True) with no except clause, or with
\* one that logs and re-raises
Reraised(responses) ==
  {[response |-> r, error |-> wait_on_response(r, TRUE)] : r \in responses}

\* kwargs.get(key, default)
Get(kwargs, key, default) == IF key \in DOMAIN kwargs THEN kwargs[key] ELSE default

(***************************************************************************)
(* VenusBackend: lifecycle.                                                *)
(***************************************************************************)
Init ==
  /\ hamilton_interface = 0
  /\ transports = <<>>
  /\ log = <<>>
  /\ calls = 0
  /\ last = Call("__init__", <<>>, <<>>, <<>>)

setup(raise_first_exception, response) ==
  LET id == Len(transports) + 1
      e == wait_on_response(response, raise_first_exception)
      call == [Call("setup", <<>>, <<>>, <<>>)
                 EXCEPT !.raise_first_exception = raise_first_exception]
  IN /\ hamilton_interface' = id
     /\ transports' = Append(transports, [started |-> TRUE, stops |-> 0])
     /\ log' = log \o Exchange("INITIALIZE")
     /\ calls' = calls + 1
     /\ last' = [call EXCEPT !.sent = <<[cmd |-> "INITIALIZE", params |-> <<>>]>>,
                             !.response = response,
                             !.error = e,
                             !.returned = IF e = NoError THEN Ok(<<>>) ELSE Raise(e.type)]

\* stop with the bug of closing the transport whether or not a handle is held
stop_unguarded ==
  /\ IF transports # <<>>
       THEN transports' = [transports EXCEPT ![Len(transports)].stops = @ + 1]
       ELSE UNCHANGED transports
  /\ hamilton_interface' = 0
  /\ calls' = calls + 1
  /\ last' = Call("stop", <<>>, <<>>, <<>>)
  /\ UNCHANGED log

stop ==
  /\ IF hamilton_interface # 0
       THEN /\ transports' = [transports EXCEPT ![hamilton_interface].stops = @ + 1]
            /\ hamilton_interface' = 0
       ELSE UNCHANGED <<hamilton_interface, transports>>
  /\ calls' = calls + 1
  /\ last' = Call("stop", <<>>, <<>>, <<>>)
  /\ UNCHANGED log

(***************************************************************************)
(* VenusBackend: single-channel operations.                                *)
(***************************************************************************)
\* the except HamiltonError clause of pick_up_tips: the exception the call ends with
pick_up_tips_except(e) ==
  IF IsHamiltonError(e) /\ Contains(e.text, s_No_tip)
    THEN Exception("NoTipError", s_Failed_to_pick_up_tip_none_present, e)
    ELSE e

pick_up_tips(ops, use_channels, kwargs, responses) ==
  LET call == Call("pick_up_tips", ops, use_channels, kwargs)
      info == _ops_to_channel_info(ops, use_channels)
      params == kwargs @@ ("labwarePositions" :> info.val[1])
                       @@ ("channelVariable" :> info.val[2])
  IN IF ~info.ok THEN Fails(call, Builtin(info.err))
     ELSE IF hamilton_interface = 0 THEN Fails(call, Builtin("AttributeError"))
     ELSE Dispatched(call, "PICKUP", params,
            {[response |-> r, error |-> pick_up_tips_except(wait_on_response(r, TRUE))]
               : r \in responses})

\* the except HamiltonError clause of drop_tips: the exception the call ends with
drop_tips_except(e) ==
  IF IsHamiltonError(e) /\ Contains(e.text, s_Tip_already_fitted)
    THEN Exception("HasTipError",
                   s_Attempted_to_drop_tip_when_another_was_already_fitted, e)
    ELSE e

drop_tips(ops, use_channels, kwargs, responses) ==
  LET call == Call("drop_tips", ops, use_channels, kwargs)
      is_trash == \A i \in 1..Len(ops) : isinstance(ops[i].resource, {"Trash"})
      info == _ops_to_channel_info(ops, use_channels)
      params == IF is_trash
                  THEN kwargs @@ ("useDefaultWaste" :> 1)
                              @@ ("channelVariable" :> info.val[2])
                  ELSE kwargs @@ ("labwarePositions" :> info.val[1])
                              @@ ("channelVariable" :> info.val[2])
  IN IF ~info.ok THEN Fails(call, Builtin(info.err))
     ELSE IF hamilton_interface = 0 THEN Fails(call, Builtin("AttributeError"))
     ELSE Dispatched(call, "EJECT", params,
            {[response |-> r, error |-> drop_tips_except(wait_on_response(r, TRUE))]
               : r \in responses})

\* aspirate_except with the bug of matching the text case-sensitively
aspirate_except_case_sensitive(e) ==
  IF IsHamiltonError(e) /\ Contains(e.text, s_not_enough_liquid)
    THEN Exception("TooLittleLiquidError", <<>>, e)
    ELSE e

\* the except HamiltonError clause of aspirate: the exception the call ends with
aspirate_except(e) ==
  IF IsHamiltonError(e) /\ Contains(ToLower(e.text), s_not_enough_liquid)
    THEN Exception("TooLittleLiquidError", <<>>, e)
    ELSE e

aspirate(ops, use_channels, kwargs, responses) ==
  LET call == Call("aspirate", ops, use_channels, kwargs)
      info == _ops_to_channel_info(ops, use_channels)
      volumes == [i \in 1..Len(ops) |-> ops[i].volume]
      params == ("labwarePositions" :> info.val[1])
                @@ ("volumes" :> volumes)
                @@ ("channelVariable" :> info.val[2])
                @@ ("liquidClass" :> Get(kwargs, "liquidClass", DEFAULT_LIQUID_CLASS))
  IN IF ~info.ok THEN Fails(call, Builtin(info.err))
     ELSE IF hamilton_interface = 0 THEN Fails(call, Builtin("AttributeError"))
     ELSE Dispatched(call, "ASPIRATE", params,
            {[response |-> r, error |-> aspirate_except(wait_on_response(r, TRUE))]
               : r \in responses})

dispense(ops, use_channels, kwargs, responses) ==
  LET call == Call("dispense", ops, use_channels, kwargs)
      info == _ops_to_channel_info(ops, use_channels)
      volumes == [i \in 1..Len(ops) |-> ops[i].volume]
      params == ("labwarePositions" :> info.val[1])
                @@ ("volumes" :> volumes)
                @@ ("channelVariable" :> info.val[2])
                @@ ("liquidClass" :> Get(kwargs, "liquidClass", DEFAULT_LIQUID_CLASS))
                @@ ("dispenseMode" :> Get(kwargs, "dispenseMode", 8))
  IN IF ~info.ok THEN Fails(call, Builtin(info.err))
     ELSE IF hamilton_interface = 0 THEN Fails(call, Builtin("AttributeError"))
     ELSE Dispatched(call, "DISPENSE", params, Reraised(responses))

(***************************************************************************)
(* VenusBackend: 96-head operations.                                       *)
(***************************************************************************)
pick_up_tips96(pickup, kwargs, responses) ==
  LET call == Call("pick_up_tips96", <<pickup>>, <<>>, kwargs)
      labware_positions == _resource_to_96_pos_str(pickup.resource)
      params == kwargs @@ ("labwarePositions" :> labware_positions.val)
  IN IF ~labware_positions.ok THEN Fails(call, Builtin(labware_positions.err))
     ELSE IF hamilton_interface = 0 THEN Fails(call, Builtin("AttributeError"))
     ELSE Dispatched(call, "PICKUP96", params, Reraised(responses))

drop_tips96(drop, kwargs, responses) ==
  LET call == Call("drop_tips96", <<drop>>, <<>>, kwargs)
      to_trash == isinstance(drop.resource, {"Trash"})
      labware_positions == _resource_to_96_pos_str(drop.resource)
      params == IF to_trash
                  THEN kwargs @@ ("tipEjectToKnownPosition" :> 2)
                  ELSE kwargs @@ ("labwarePositions" :> labware_positions.val)
  IN IF ~to_trash /\ ~labware_positions.ok
       THEN Fails(call, Builtin(labware_positions.err))
     ELSE IF hamilton_interface = 0 THEN Fails(call, Builtin("AttributeError"))
     ELSE Dispatched(call, "EJECT96", params, Reraised(responses))

\* aspiration.wells[0].parent of the plate variant, aspiration.container of the other
MultiHeadResource(operation) ==
  IF operation.variant = "Plate"
    THEN IF operation.wells = <<>> THEN Raise("IndexError")
         ELSE Ok(operation.wells[1].parent)
    ELSE Ok(operation.container)

aspirate96(aspiration, kwargs, responses) ==
  LET call == Call("aspirate96", <<aspiration>>, <<>>, kwargs)
      resource == MultiHeadResource(aspiration)
      labware_positions == _resource_to_96_pos_str(resource.val)
      params == ("labwarePositions" :> labware_positions.val)
                @@ ("aspirateVolume" :> aspiration.volume)
                @@ ("liquidClass" :> Get(kwargs, "liquidClass", DEFAULT_LIQUID_CLASS))
  IN IF ~resource.ok THEN Fails(call, Builtin(resource.err))
     ELSE IF ~labware_positions.ok THEN Fails(call, Builtin(labware_positions.err))
     ELSE IF hamilton_interface = 0 THEN Fails(call, Builtin("AttributeError"))
     ELSE Dispatched(call, "ASPIRATE96", params, Reraised(responses))

dispense96(dispense_op, kwargs, responses) ==
  LET call == Call("dispense96", <<dispense_op>>, <<>>, kwargs)
      resource == MultiHeadResource(dispense_op)
      labware_positions == _resource_to_96_pos_str(resource.val)
      params == ("labwarePositions" :> labware_positions.val)
                @@ ("dispenseVolume" :> dispense_op.volume)
                @@ ("liquidClass" :> Get(kwargs, "liquidClass", DEFAULT_LIQUID_CLASS))
  IN IF ~resource.ok THEN Fails(call, Builtin(resource.err))
     ELSE IF ~labware_positions.ok THEN Fails(call, Builtin(labware_positions.err))
     ELSE IF hamilton_interface = 0 THEN Fails(call, Builtin("AttributeError"))
     ELSE Dispatched(call, "DISPENSE96", params, Reraised(responses))

(***************************************************************************)
(* VenusBackend: gripper operations.                                       *)
(***************************************************************************)
pick_up_resource(pickup, kwargs, responses) ==
  LET call == Call("pick_up_resource", <<pickup>>, <<>>, kwargs)
      source_pos == _resource_to_pos_str(pickup.resource)
      params == kwargs @@ ("plateLabwarePositions" :> source_pos.val)
  IN IF ~source_pos.ok THEN Fails(call, Builtin(source_pos.err))
     ELSE IF hamilton_interface = 0 THEN Fails(call, Builtin("AttributeError"))
     ELSE Dispatched(call, "ISWAP_GET", params, Reraised(responses))

drop_resource(drop, kwargs, responses) ==
  LET call == Call("drop_resource", <<drop>>, <<>>, kwargs)
      dest_pos == _resource_to_pos_str(drop.resource)
      params == kwargs @@ ("plateLabwarePositions" :> dest_pos.val)
  IN IF ~dest_pos.ok THEN Fails(call, Builtin(dest_pos.err))
     ELSE IF hamilton_interface = 0 THEN Fails(call, Builtin("AttributeError"))
     ELSE Dispatched(call, "ISWAP_PLACE", params, Reraised(responses))

\* move_picked_up_resource with the bug of sending ISWAP_MOVE like its siblings
move_picked_up_resource_sends(move, kwargs) ==
  LET call == Call("move_picked_up_resource", <<move>>, <<>>, kwargs)
  IN IF hamilton_interface = 0 THEN Fails(call, Builtin("AttributeError"))
     ELSE Dispatched(call, "ISWAP_MOVE", kwargs, Reraised({OkResponse}))

move_picked_up_resource(move, kwargs) ==
  Fails(Call("move_picked_up_resource", <<move>>, <<>>, kwargs),
        Exception("NotImplementedError", <<>>, NoError))

(***************************************************************************)
(* The callers' inputs and the transport's answers.                        *)
(***************************************************************************)
\* targets of single-channel operations
Targets == {trash, WellAt(plateA, 2, 1), TipSpotAt(tips, 1, 3)}

\* channel indices a caller may pass: below, inside and above [0, num_channels)
Channels == {-1, 0, 1, num_channels}

Volumes == {10}

Op(resource, volume) == [resource |-> resource, volume |-> volume]

\* batches of n operations, for n up to MaxOps
Batches ==
  UNION {[1..n -> {Op(r, v) : r \in Targets, v \in Volumes}] : n \in 0..MaxOps}

\* one channel per operation of the batch
Assignments(ops) == [1..Len(ops) -> Channels]

Kwargs == {<<>>, ("liquidClass" :> "HighVolume_Water")}

TransportCause == Exception("OSError", s_pipe_closed, NoError)

FaultTexts ==
  { s_No_tip_present, s_no_tip_present, s_Tip_already_fitted,
    s_Not_Enough_Liquid_in_Well, s_not_enough_liquid_in_reservoir,
    s_Hardware_error }

Responses ==
  {OkResponse}
    \cup {Fault("HamiltonError", t, NoError) : t \in FaultTexts}
    \cup {Fault("HamiltonError", s_Hardware_error, TransportCause),
          Fault("HamiltonError", s_No_tip_present, TransportCause),
          Fault("PositionError", s_Position_not_reachable, NoError)}

RackOps == {[resource |-> tips_full], [resource |-> trash], [resource |-> trough]}

MultiHeadOps ==
  { [variant |-> "Plate", volume |-> 10, container |-> NoResource,
     wells |-> <<WellAt(plateA_full, 0, 0), WellAt(plateA_full, 0, 1)>>],
    [variant |-> "Plate", volume |-> 10, container |-> NoResource, wells |-> <<>>],
    [variant |-> "Container", volume |-> 10, container |-> trough, wells |-> <<>>] }

GripperOps == {[resource |-> plateA], [resource |-> tips], [resource |-> trough]}

(***************************************************************************)
(* The backend as its caller drives it: one action per method, over the    *)
(* inputs the caller chooses from and the answers the transport may give.  *)
(***************************************************************************)
\* a batch with its channel assignment
Inputs ==
  UNION {{[ops |-> ops, use_channels |-> u] : u \in Assignments(ops)} : ops \in Batches}

Setup(responses) ==
  \E raise_first_exception \in BOOLEAN, response \in responses :
    setup(raise_first_exception, response)

Stop == stop

PickUpTips(inputs, kwargss, responses) ==
  \E i \in inputs, kwargs \in kwargss :
    pick_up_tips(i.ops, i.use_channels, kwargs, responses)

DropTips(inputs, kwargss, responses) ==
  \E i \in inputs, kwargs \in kwargss :
    drop_tips(i.ops, i.use_channels, kwargs, responses)

Aspirate(inputs, kwargss, responses) ==
  \E i \in inputs, kwargs \in kwargss :
    aspirate(i.ops, i.use_channels, kwargs, responses)

Dispense(inputs, kwargss, responses) ==
  \E i \in inputs, kwargs \in kwargss :
    dispense(i.ops, i.use_channels, kwargs, responses)

PickUpTips96(racks, kwargss, responses) ==
  \E pickup \in racks, kwargs \in kwargss : pick_up_tips96(pickup, kwargs, responses)

DropTips96(racks, kwargss, responses) ==
  \E drop \in racks, kwargs \in kwargss : drop_tips96(drop, kwargs, responses)

Aspirate96(multi, kwargss, responses) ==
  \E aspiration \in multi, kwargs \in kwargss : aspirate96(aspiration, kwargs, responses)

Dispense96(multi, kwargss, responses) ==
  \E dispense_op \in multi, kwargs \in kwargss : dispense96(dispense_op, kwargs, responses)

PickUpResource(gripper, kwargss, responses) ==
  \E pickup \in gripper, kwargs \in kwargss : pick_up_resource(pickup, kwargs, responses)

DropResource(gripper, kwargss, responses) ==
  \E drop \in gripper, kwargs \in kwargss : drop_resource(drop, kwargs, responses)

MovePickedUpResource(gripper, kwargss) ==
  \E move \in gripper, kwargs \in kwargss : move_picked_up_resource(move, kwargs)

(***************************************************************************)
(* Spec: any MaxCalls calls in a row, each over a few inputs: a batch of   *)
(* two that encodes, a batch that does not, and a transport that answers   *)
(* with success or with a fault.                                           *)
(***************************************************************************)
FewInputs ==
  { [ops |-> <<Op(TipSpotAt(tips, 1, 3), 10), Op(WellAt(plateA, 2, 1), 10)>>,
     use_channels |-> <<0, 1>>],
    [ops |-> <<Op(trash, 10)>>, use_channels |-> <<0>>] }

FewRacks == {[resource |-> tips_full], [resource |-> trash]}

FewMulti == {m \in MultiHeadOps : m.variant = "Plate"}

FewGripper == {[resource |-> plateA], [resource |-> trough]}

NoKwargs == {<<>>}

FewResponses == {OkResponse, Fault("HamiltonError", s_Hardware_error, NoError)}

Running == calls < MaxCalls

Next ==
  \/ Running /\ Setup(FewResponses)
  \/ Running /\ Stop
  \/ Running /\ PickUpTips(FewInputs, NoKwargs, FewResponses)
  \/ Running /\ DropTips(FewInputs, NoKwargs, FewResponses)
  \/ Running /\ Aspirate(FewInputs, NoKwargs, FewResponses)
  \/ Running /\ Dispense(FewInputs, NoKwargs, FewResponses)
  \/ Running /\ PickUpTips96(FewRacks, NoKwargs, FewResponses)
  \/ Running /\ DropTips96(FewRacks, NoKwargs, FewResponses)
  \/ Running /\ Aspirate96(FewMulti, NoKwargs, FewResponses)
  \/ Running /\ Dispense96(FewMulti, NoKwargs, FewResponses)
  \/ Running /\ PickUpResource(FewGripper, NoKwargs, FewResponses)
  \/ Running /\ DropResource(FewGripper, NoKwargs, FewResponses)
  \/ Running /\ MovePickedUpResource(FewGripper, NoKwargs)

Spec == Init /\ [][Next]_vars

(***************************************************************************)
(* SpecDispatch: up to MaxPrefix calls of setup and stop, then one         *)
(* operation over all the batches, channel assignments, keyword arguments  *)
(* and responses.                                                          *)
(***************************************************************************)
InLifecycle == last.op \in {"__init__", "setup", "stop"}

NextDispatch ==
  \/ InLifecycle /\ calls < MaxPrefix /\ Setup(FewResponses)
  \/ InLifecycle /\ calls < MaxPrefix /\ Stop
  \/ InLifecycle /\ PickUpTips(Inputs, Kwargs, Responses)
  \/ InLifecycle /\ DropTips(Inputs, Kwargs, Responses)
  \/ InLifecycle /\ Aspirate(Inputs, Kwargs, Responses)
  \/ InLifecycle /\ Dispense(Inputs, Kwargs, Responses)
  \/ InLifecycle /\ PickUpTips96(RackOps, Kwargs, Responses)
  \/ InLifecycle /\ DropTips96(RackOps, Kwargs, Responses)
  \/ InLifecycle /\ Aspirate96(MultiHeadOps, Kwargs, Responses)
  \/ InLifecycle /\ Dispense96(MultiHeadOps, Kwargs, Responses)
  \/ InLifecycle /\ PickUpResource(GripperOps, Kwargs, Responses)
  \/ InLifecycle /\ DropResource(GripperOps, Kwargs, Responses)
  \/ InLifecycle /\ MovePickedUpResource(GripperOps, Kwargs)

SpecDispatch == Init /\ [][NextDispatch]_vars

(***************************************************************************)
(* SpecEncoders: the two pure encoders, each applied to one input.         *)
(***************************************************************************)
plate_1 == Resource("Plate", s_plate_1, deck)

tube_5_0_0 ==
  Resource("Tube", s_rack1_5_0_0, rack1)

EncoderInputs ==
  {WellAt(p, c, r) : p \in {plateA, plate_1}, c \in 0..MaxCol, r \in 0..MaxRow}
    \cup {TipSpotAt(tips, c, r) : c \in 0..MaxCol, r \in 0..MaxRow}
    \cup {tube_3, tube_3_0_0, tube_5_0_0, trash, trash_0_0, trough, plateA, tips}

MaskInputs ==
  UNION {{[n |-> n, use_channels |-> u] :
            u \in UNION {[1..k -> -1..n] : k \in 0..MaxUse}} : n \in 1..MaxChannels}

Encode ==
  \E resource \in EncoderInputs :
    /\ last.op = "__init__"
    /\ last' = [Call("_resource_to_pos_str", <<[resource |-> resource]>>, <<>>, <<>>)
                  EXCEPT !.returned = _resource_to_pos_str(resource)]
    /\ UNCHANGED <<hamilton_interface, transports, log, calls>>

BuildMask ==
  \E i \in MaskInputs :
    /\ last.op = "__init__"
    /\ last' = [Call("ChannelVariable", <<>>, i.use_channels, <<>>)
                  EXCEPT !.num_channels = i.n,
                         !.returned = ChannelVariable(i.n, i.use_channels)]
    /\ UNCHANGED <<hamilton_interface, transports, log, calls>>

NextEncoders ==
  \/ Encode
  \/ BuildMask

SpecEncoders == Init /\ [][NextEncoders]_vars

(***************************************************************************)
(* Properties.                                                             *)
(***************************************************************************)
SingleChannelOps == {"pick_up_tips", "drop_tips", "aspirate", "dispense"}

BatchOps ==
  SingleChannelOps \cup {"pick_up_tips96", "drop_tips96", "aspirate96", "dispense96",
                         "pick_up_resource", "drop_resource"}

Range(seq) == {seq[i] : i \in 1..Len(seq)}

\* every index in [0, n) and none twice
ValidChannels(use_channels, n) ==
  /\ \A i \in 1..Len(use_channels) : use_channels[i] \in 0..(n - 1)
  /\ \A i, j \in 1..Len(use_channels) : i # j => use_channels[i] # use_channels[j]

\* the used-channel set read back from a mask, index 0 first
UsedChannels(mask) == {i \in 0..(Len(mask) - 1) : mask[i + 1] = "1"}

AllTrash(ops) == \A i \in 1..Len(ops) : ops[i].resource.kind = "Trash"

\* a call has just returned or raised
Called == calls' = calls + 1

\* C1: move_picked_up_resource, in any backend state, raises the unsupported-operation
\* error (Python's NotImplementedError) and neither sends a command nor waits for a
\* response: the transport's log is as it was before the call.
C1_MoveAlwaysRaises ==
  [][(Called /\ last'.op = "move_picked_up_resource")
       => /\ last'.error.type = "NotImplementedError"
          /\ last'.sent = <<>>
          /\ ~last'.response.awaited
          /\ log' = log]_vars

\* the move was called on a connected backend, whose transport it could have reached
C1_Witness ==
  /\ last.op = "move_picked_up_resource"
  /\ hamilton_interface # 0
  /\ last.error.type = "NotImplementedError"

\* C2: every drop_tips batch on a connected backend, with a valid channel assignment,
\* submits an EJECT parameter map with exactly one of useDefaultWaste and
\* labwarePositions: useDefaultWaste = 1 when every target is Trash, labwarePositions
\* when some target is not; channelVariable is there in both cases.
C2_DropTipsParams ==
  (/\ last.op = "drop_tips"
   /\ hamilton_interface # 0
   /\ ValidChannels(last.use_channels, last.num_channels))
    => /\ Len(last.sent) = 1
       /\ last.sent[1].cmd = "EJECT"
       /\ LET keys == DOMAIN last.sent[1].params
          IN /\ "channelVariable" \in keys
             /\ IF AllTrash(last.ops)
                  THEN /\ "useDefaultWaste" \in keys
                       /\ last.sent[1].params["useDefaultWaste"] = 1
                       /\ "labwarePositions" \notin keys
                  ELSE /\ "labwarePositions" \in keys
                       /\ "useDefaultWaste" \notin keys

\* C3: when INITIALIZE faults during setup, setup re-raises the fault and the backend
\* holds no transport handle: no state has a failed setup and a connected backend.
C3_FailedSetupDisconnected ==
  (last.op = "setup" /\ last.response.fault /\ last.raise_first_exception)
    => /\ last.error = last.response.error
       /\ hamilton_interface = 0

\* C4: a single-channel operation whose use_channels holds an index outside
\* [0, num_channels) or the same index twice fails before any command is submitted.
C4_InvalidChannelsRejected ==
  (last.op \in SingleChannelOps /\ ~ValidChannels(last.use_channels, last.num_channels))
    => /\ last.error # NoError
       /\ last.sent = <<>>

\* C5: for every channel count n and every list of the indices of a set U within
\* [0, n), the mask has length n, '1' at exactly the indices of U and '0' at every
\* other index, index 0 first, and reading the used channels back gives U.
C5_MaskOfChannelSet ==
  (/\ last.op = "ChannelVariable"
   /\ Range(last.use_channels) \subseteq 0..(last.num_channels - 1))
    => /\ last.returned.ok
       /\ Len(last.returned.val) = last.num_channels
       /\ \A i \in 0..(last.num_channels - 1) :
            last.returned.val[i + 1] =
              (IF i \in Range(last.use_channels) THEN "1" ELSE "0")
       /\ UsedChannels(last.returned.val) = Range(last.use_channels)

\* a mask of three channels with two of them used
C5_Witness ==
  /\ last.op = "ChannelVariable"
  /\ last.num_channels = 3
  /\ last.use_channels = <<2, 0>>
  /\ last.returned.val = <<"1", "0", "1">>

\* the fault text matches the pattern the operation looks for
MatchesPattern(op, text) ==
  \/ op = "pick_up_tips" /\ Contains(text, s_No_tip)
  \/ op = "drop_tips" /\ Contains(text, s_Tip_already_fitted)
  \/ op = "aspirate" /\ Contains(ToLower(text), s_not_enough_liquid)

\* C6: an operation whose awaited response is a fault never returns normally:
\* "No tip present" on pick_up_tips raises NoTipError, "Tip already fitted" on
\* drop_tips raises HasTipError, a text with "not enough liquid" in any letter case on
\* aspirate raises TooLittleLiquidError, each with the fault as its cause; a text that
\* matches none of the operation's patterns propagates as the fault itself, text and
\* cause unchanged.
C6_FaultTranslation ==
  (last.op \in BatchOps /\ last.response.fault)
    => LET fault == last.response.error
       IN /\ last.error # NoError
          /\ ~last.returned.ok
          /\ (last.op = "pick_up_tips" /\ Contains(fault.text, s_No_tip_present))
               => (last.error.type = "NoTipError" /\ last.error.cause = fault)
          /\ (last.op = "drop_tips" /\ Contains(fault.text, s_Tip_already_fitted))
               => (last.error.type = "HasTipError" /\ last.error.cause = fault)
          /\ (last.op = "aspirate"
                /\ Contains(ToLower(fault.text), s_not_enough_liquid))
               => (last.error.type = "TooLittleLiquidError" /\ last.error.cause = fault)
          /\ ~MatchesPattern(last.op, fault.text) => last.error = fault

\* aspirate answered with the capitalised text, which only a case-insensitive match finds
C6_Witness ==
  /\ last.op = "aspirate"
  /\ last.response.fault
  /\ last.response.error.text = s_Not_Enough_Liquid_in_Well
  /\ last.error.type = "TooLittleLiquidError"
  /\ last.error.cause = last.response.error

\* the number of position strings in a ';'-joined list
Positions(joined) == Len(Split(joined, ";"))

\* the one command of a batch covers all of its operations
CoversBatch(call) ==
  LET params == call.sent[1].params
  IN (call.op \in SingleChannelOps /\ call.ops # <<>>)
       => /\ "labwarePositions" \in DOMAIN params
               => Positions(params["labwarePositions"]) = Len(call.ops)
          /\ "volumes" \in DOMAIN params => Len(params["volumes"]) = Len(call.ops)

\* C7: every call of a batch operation either fails with nothing sent, or sends exactly
\* one command, covering the whole batch, and waits for it before returning; the
\* transport sees the commands in the order of the calls.
C7_OneCommandPerCall ==
  [][(Called /\ last'.op \in BatchOps)
       => /\ \/ /\ last'.sent = <<>>
                /\ last'.error # NoError
                /\ log' = log
             \/ /\ Len(last'.sent) = 1
                /\ CoversBatch(last')
                /\ log' = log \o << [ev |-> "send", call |-> calls', cmd |-> last'.sent[1].cmd],
                                    [ev |-> "wait", call |-> calls', cmd |-> last'.sent[1].cmd] >>
          /\ \A i, j \in 1..Len(log') : i < j => log'[i].call <= log'[j].call]_vars

\* two batch operations in a row, each of which reached the transport
C7_Witness ==
  /\ Len(log) = 6
  /\ log[3].call < log[5].call
  /\ last.op = "aspirate"
  /\ Len(last.ops) = 2
  /\ Len(last.sent) = 1

\* C8: stop on a disconnected backend closes no transport and leaves it disconnected;
\* after every stop the backend holds no transport handle, and no transport is ever
\* closed more than once.
C8_StopIdempotent ==
  [][(Called /\ last'.op = "stop")
       => /\ hamilton_interface' = 0
          /\ hamilton_interface = 0 => transports' = transports
          /\ \A t \in 1..Len(transports') : transports'[t].stops <= 1]_vars

\* a stop after the stop that closed the transport
C8_Witness ==
  /\ last.op = "stop"
  /\ calls = 3
  /\ hamilton_interface = 0
  /\ Len(transports) = 1
  /\ transports[1].stops = 1
  /\ Len(log) = 2

\* "<parent.name>, <letter(row)><col+1>"
WellPosition(plate, col, row) ==
  plate.name \o <<",", " ">> \o <<Upper[row + 1]>> \o Str(col + 1)

\* C9 as stated: a Well named ..._<col>_<row> encodes as
\* "<parent.name>, <letter(row)><col+1>", and plateA_2_1 with parent plateA as
\* "plateA, C3".
C9_WellEncodingAsStated ==
  last.op = "_resource_to_pos_str"
    => /\ \A p \in {plateA, plate_1}, c \in 0..MaxCol, r \in 0..MaxRow :
            last.ops[1].resource = WellAt(p, c, r)
              => last.returned = Ok(WellPosition(p, c, r))
       /\ last.ops[1].resource = WellAt(plateA, 2, 1)
            => last.returned = Ok(<<"p", "l", "a", "t", "e", "A", ",", " ", "C", "3">>)

\* C9, amended: a Well named ..._<col>_<row> encodes as
\* "<parent.name>, <letter(row)><col+1>", and plateA_2_1 with parent plateA (column 2,
\* row 1) as "plateA, B3".
C9_WellEncoding ==
  last.op = "_resource_to_pos_str"
    => /\ \A p \in {plateA, plate_1}, c \in 0..MaxCol, r \in 0..MaxRow :
            last.ops[1].resource = WellAt(p, c, r)
              => last.returned = Ok(WellPosition(p, c, r))
       /\ last.ops[1].resource = WellAt(plateA, 2, 1)
            => last.returned = Ok(<<"p", "l", "a", "t", "e", "A", ",", " ", "B", "3">>)

\* the well plateA_2_1 was encoded
C9_Witness ==
  /\ last.op = "_resource_to_pos_str"
  /\ last.ops[1].resource.kind = "Well"
  /\ last.ops[1].resource.name = <<"p", "l", "a", "t", "e", "A", "_", "2", "_", "1">>
  /\ last.returned.ok

\* C10: a Tube named <rack>-<id> encodes as "<grandparent.name>, <id>", <id> being
\* what follows the last '-' of the tube's own name.
C10_TubeEncoding ==
  (last.op = "_resource_to_pos_str" /\ last.ops[1].resource.kind = "Tube")
    => LET tube == last.ops[1].resource
           pieces == Split(tube.name, "-")
       IN last.returned =
            Ok(tube.parent.parent.name \o <<",", " ">> \o pieces[Len(pieces)])

====
